---- MODULE Spec2Model ----
(***************************************************************************)
(* Global state of the API server (routes/global_state.go): one key-value  *)
(* namespace that an instance either keeps in its own badger database or   *)
(* reaches through the HTTP handlers of the instance named by              *)
(* GlobalStateRemoteNode.                                                  *)
(*                                                                         *)
(* Go byte slices are modelled as sequences of bytes; a nil slice and an   *)
(* empty slice are both << >> (len and bytes.Equal cannot tell them apart).*)
(* A Go error is a string, "" being the nil error.                         *)
(***************************************************************************)
EXTENDS Integers, Sequences, FiniteSets, TLC

\* ---------------------------------------------------------------- bounds
\* How many different keys callers use: the first NumKeys non-empty byte
\* strings, shortest first.
NumKeys == 3
\* Longest key list handed to GlobalStateBatchGet.
MaxBatch == 2
\* Largest numToFetch handed to GlobalStateSeek.
MaxFetch == 2
\* How many of these keys the concurrent callers of the fleet use.
FleetKeys == 1

Byte == {0, 1}

\* The longest key field (public key, phone number, username) looked at.
MaxField == 1

\* The instances of a fleet whose remote-node configuration is arbitrary,
\* and the number of hops counted (a longer journey counts as MaxHops).
NumInstances == 3
MaxHops == 2

SeqsUpTo(S, n) == UNION {[1..m -> S] : m \in 0..n}

\* The i-th non-empty string over Byte, shortest first: <<0>>, <<1>>,
\* <<0, 0>>, <<0, 1>>, <<1, 0>>, ...
RECURSIVE KeyOf(_)
KeyOf(i) ==
    IF i <= 2 THEN <<i - 1>>
    ELSE Append(KeyOf((i - 1) \div 2), (i - 1) % 2)

\* The engine rejects the empty key, so stored keys are non-empty.
Key == {KeyOf(i) : i \in 1..NumKeys}

LongestKey == CHOOSE n \in 1..NumKeys :
                  /\ \E k \in Key : Len(k) = n
                  /\ \A k \in Key : Len(k) <= n

\* The keys and all their prefixes, the empty one included.
Prefixes == UNION {{SubSeq(k, 1, n) : n \in 0..Len(k)} : k \in Key}

\* The keys of the concurrent callers.
FleetKey == {KeyOf(i) : i \in 1..FleetKeys}

\* Stored payloads: the empty value and a non-empty one.
Value == {<< >>, <<1>>}

NoErr == ""

\* ------------------------------------------------------- the fleet's nodes
Node == {"owner", "proxy"}

\* fes.GlobalStateRemoteNode of each instance: "" on the instance that owns
\* the database, the owner's address on the others. Besides the fleet's two
\* nodes there are instances configured like the proxy, each with a shared
\* secret of its own.
GlobalStateRemoteNode ==
    [owner |-> "", proxy |-> "owner", proxyAmp |-> "owner",
     proxyHash |-> "owner", proxyPlus |-> "owner", proxyEq |-> "owner"]

\* fes.GlobalStateRemoteNodeSharedSecret of each instance, character by
\* character: any string the operator configures.
GlobalStateRemoteNodeSharedSecret ==
    [owner |-> << >>, proxy |-> <<"s", "e", "c", "r", "e", "t">>,
     proxyAmp |-> <<"s", "&", "t">>, proxyHash |-> <<"s", "#", "t">>,
     proxyPlus |-> <<"s", "+", "t">>, proxyEq |-> <<"s", "=", "t">>]

GlobalStateSharedSecretParam == "shared_secret"
RoutePathGlobalStatePutRemote == "/api/v1/global-state/put"
RoutePathGlobalStateGetRemote == "/api/v1/global-state/get"
RoutePathGlobalStateBatchGetRemote == "/api/v1/global-state/batch-get"
RoutePathGlobalStateDeleteRemote == "/api/v1/global-state/delete"
RoutePathGlobalStateSeekRemote == "/api/v1/global-state/seek"

\* ------------------------------------------------------------ the engine
\* A database is a function from the keys it holds to their values.
EmptyDB == [k \in {} |-> << >>]

\* What the engine does to one transaction: nothing, fail the lookup of
\* `key` with an error other than ErrKeyNotFound, fail the copy of the value
\* of `key`, or fail the write transaction.
NoFault == [kind |-> "none", key |-> << >>]
ReadFaults(keys) == {NoFault} \cup
    {[kind |-> f, key |-> k] : f \in {"lookup", "copy"}, k \in keys}
WriteFaults == {NoFault, [kind |-> "txn", key |-> << >>]}

\* txn.Get(key)
TxnGet(store, key, fault) ==
    IF fault.kind = "lookup" /\ fault.key = key
    THEN [err |-> "engine: lookup failed", item |-> << >>]
    ELSE IF key \notin DOMAIN store
    THEN [err |-> "ErrKeyNotFound", item |-> << >>]
    ELSE [err |-> NoErr, item |-> store[key]]

\* item.ValueCopy(nil), for the item found under `key`
ItemValueCopy(item, key, fault) ==
    IF fault.kind = "copy" /\ fault.key = key
    THEN [err |-> "engine: value copy failed", val |-> << >>]
    ELSE [err |-> NoErr, val |-> item]

\* txn.Set(key, value)
TxnSet(store, key, value) ==
    [k \in DOMAIN store \cup {key} |-> IF k = key THEN value ELSE store[k]]

\* A delete that takes every key beginning with `key` away.
TxnDeleteByPrefix(store, key) ==
    [k \in {j \in DOMAIN store : Len(j) < Len(key) \/ SubSeq(j, 1, Len(key)) # key}
        |-> store[k]]

\* txn.Delete(key)
TxnDelete(store, key) ==
    [k \in DOMAIN store \ {key} |-> store[k]]

\* db.Update(fn): the write set is committed, or the transaction fails and
\* the database is as before.
DBUpdate(store, written, fault) ==
    IF fault.kind = "txn"
    THEN [err |-> "engine: transaction failed", store |-> store]
    ELSE [err |-> NoErr, store |-> written]

\* ------------------------------------------------- the interchange format
\* encoding/json writes a []byte as a base64 string.
JSONBytes(b) == [base64 |-> b]

\* A message body: `wellFormed` tells whether json Decode accepts it, `doc`
\* is what Decode stores in the target struct. JSONBody(doc) is the encoding
\* of doc; Garbage is no JSON at all, Decode fails having stored nothing;
\* Mistyped(doc) is JSON with a member of the wrong type besides the members
\* of doc: Decode stores the members it can and fails.
JSONBody(doc) == [wellFormed |-> TRUE, doc |-> doc]
Garbage == [wellFormed |-> FALSE, doc |-> << >>]
Mistyped(doc) == [wellFormed |-> FALSE, doc |-> doc]

\* The []byte field `name` of a decoded document; a field the document does
\* not carry keeps the zero value of the struct.
BytesField(doc, name) ==
    IF name \in DOMAIN doc THEN doc[name].base64 ELSE << >>

\* The [][]byte field `name` of a decoded document.
ListField(doc, name) ==
    IF name \in DOMAIN doc
    THEN [i \in 1..Len(doc[name]) |-> doc[name][i].base64]
    ELSE << >>

\* _AddBadRequestError(ww, msg): status 400 and a body that carries only
\* the message.
AddBadRequestError(msg) ==
    [status |-> 400, body |-> JSONBody([error |-> msg])]

\* json.NewEncoder(ww).Encode(res) on a fresh ResponseWriter: status 200.
EncodeResponse(doc) == [status |-> 200, body |-> JSONBody(doc)]

\* No response at all.
NoResponse == [status |-> 0, body |-> Garbage]

\* fmt.Sprintf("%s%s?%s=%s", remote node, route, secret parameter, secret):
\* the URL as the string it is, piece after piece, the secret character by
\* character. Nothing is escaped.
RemoteURL(n, route) ==
    <<GlobalStateRemoteNode[n], route, "?", GlobalStateSharedSecretParam, "=">>
    \o GlobalStateRemoteNodeSharedSecret[n]

\* strings.Cut(s, sep): what stands before the first sep and what stands
\* after it; all of s and nothing when s holds no sep.
Index(s, sep) ==
    IF \E i \in 1..Len(s) : s[i] = sep
    THEN CHOOSE i \in 1..Len(s) : s[i] = sep /\ \A j \in 1..(i - 1) : s[j] # sep
    ELSE Len(s) + 1
Before(s, sep) == SubSeq(s, 1, Index(s, sep) - 1)
After(s, sep) == SubSeq(s, Index(s, sep) + 1, Len(s))

\* What http.Post makes of the URL string it is given (url.Parse): the
\* fragment, from the first "#" on, is cut off and never sent; the query is
\* what follows the first "?"; before it stand the address and the path.
ParseURL(url) ==
    LET rest == Before(url, "#")
    IN [host |-> Before(rest, "?")[1], path |-> Before(rest, "?")[2],
        rawQuery |-> After(rest, "?")]

\* url.QueryUnescape on a value: "+" stands for a space.
QueryUnescape(s) == [i \in 1..Len(s) |-> IF s[i] = "+" THEN " " ELSE s[i]]

\* The value of the query parameter `name` as the receiving server reads it
\* (Request.URL.Query().Get(name)): the query is split at each "&", each
\* piece at its first "=", and the first piece with that name counts.
RECURSIVE QueryGet(_, _)
QueryGet(query, name) ==
    IF query = << >> THEN << >>
    ELSE IF Before(Before(query, "&"), "=") = <<name>>
    THEN QueryUnescape(After(Before(query, "&"), "="))
    ELSE QueryGet(After(query, "&"), name)

\* What the network does to one http.Post: deliver request and response,
\* fail before the request reaches the owner, lose the response after the
\* owner handled the request, or deliver a response whose body Decode
\* rejects: no JSON at all ("garbled") or JSON with a member of the wrong
\* type ("mistyped").
Net == {"ok", "refused", "lost", "garbled", "mistyped"}
Env(fault, net) == [fault |-> fault, net |-> net]

\* ------------------------------------------------------------------ seek
\* lib.DBGetPaginatedKeysAndValuesForPrefix belongs to the core library, not
\* to this repository. The iteration below follows its documented behaviour:
\* a bounded iteration that starts at startPrefix, goes on while the key,
\* compared up to maxKeyLen bytes, matches validForPrefix, stops after
\* numToFetch results, runs backwards when reverse is set, and leaves the
\* values out unless fetchValues is set.
Min(a, b) == IF a < b THEN a ELSE b

\* bytes.Compare(a, b) < 0
LexLess(a, b) ==
    \E i \in 1..(Min(Len(a), Len(b)) + 1) :
        /\ \A j \in 1..(i - 1) : a[j] = b[j]
        /\ \/ i > Len(a) /\ i <= Len(b)
           \/ i <= Len(a) /\ i <= Len(b) /\ a[i] < b[i]

\* The keys of S in the order the iterator visits them.
RECURSIVE IterationOrder(_, _)
IterationOrder(S, reverse) ==
    IF S = {} THEN << >>
    ELSE LET first == CHOOSE k \in S : \A o \in S \ {k} :
                          IF reverse THEN LexLess(o, k) ELSE LexLess(k, o)
         IN <<first>> \o IterationOrder(S \ {first}, reverse)

\* `key` matches `prefix` when the two are compared up to maxKeyLen bytes.
MatchesUpTo(key, prefix, maxKeyLen) ==
    \A i \in 1..Min(Len(prefix), maxKeyLen) : i <= Len(key) /\ key[i] = prefix[i]

\* The arguments of one seek.
SeekArgs(startPrefix, validForPrefix, maxKeyLen, numToFetch, reverse, fetchValues) ==
    [startPrefix |-> startPrefix, validForPrefix |-> validForPrefix,
     maxKeyLen |-> maxKeyLen, numToFetch |-> numToFetch,
     reverse |-> reverse, fetchValues |-> fetchValues]

\* The iteration from position i of `order`: it goes on while the key
\* matches validForPrefix, collects the key (and the value when
\* fetchValues), and stops after numToFetch results.
RECURSIVE SeekLoop(_, _, _, _, _, _, _)
SeekLoop(store, order, i, a, fault, keysFound, valsFound) ==
    IF \/ Len(keysFound) >= a.numToFetch
       \/ i > Len(order)
       \/ ~MatchesUpTo(order[i], a.validForPrefix, a.maxKeyLen)
    THEN [keysFound |-> keysFound, valsFound |-> valsFound, err |-> NoErr]
    ELSE LET c == ItemValueCopy(store[order[i]], order[i], fault)
             ks == Append(keysFound, order[i])
             vs == IF a.fetchValues THEN Append(valsFound, c.val) ELSE valsFound
         IN IF a.fetchValues /\ c.err # NoErr
            THEN [keysFound |-> << >>, valsFound |-> << >>, err |-> c.err]
            ELSE SeekLoop(store, order, i + 1, a, fault, ks, vs)

\* lib.DBGetPaginatedKeysAndValuesForPrefix(db, startPrefix, validForPrefix,
\* maxKeyLen, numToFetch, reverse, fetchValues)
DBGetPaginatedKeysAndValuesForPrefix(store, a, fault) ==
    LET order == IterationOrder(DOMAIN store, a.reverse)
        before(k) == IF a.reverse THEN LexLess(a.startPrefix, k)
                     ELSE LexLess(k, a.startPrefix)
        skipped == Cardinality({i \in 1..Len(order) : before(order[i])})
    IN SeekLoop(store, order, skipped + 1, a, fault, << >>, << >>)

\* ---------------------------------------------------- request envelopes
CreateGlobalStatePutRequest(n, key, value) ==
    [url |-> RemoteURL(n, RoutePathGlobalStatePutRemote),
     json_data |-> JSONBody([Key |-> JSONBytes(key), Value |-> JSONBytes(value)]),
     err |-> NoErr]

CreateGlobalStateGetRequest(n, key) ==
    [url |-> RemoteURL(n, RoutePathGlobalStateGetRemote),
     json_data |-> JSONBody([Key |-> JSONBytes(key)]),
     err |-> NoErr]

CreateGlobalStateBatchGetRequest(n, keyList) ==
    [url |-> RemoteURL(n, RoutePathGlobalStateBatchGetRemote),
     json_data |-> JSONBody(
         [KeyList |-> [i \in 1..Len(keyList) |-> JSONBytes(keyList[i])]]),
     err |-> NoErr]

CreateGlobalStateDeleteRequest(n, key) ==
    [url |-> RemoteURL(n, RoutePathGlobalStateDeleteRemote),
     json_data |-> JSONBody([Key |-> JSONBytes(key)]),
     err |-> NoErr]

CreateGlobalStateSeekRequest(n, a) ==
    [url |-> RemoteURL(n, RoutePathGlobalStateSeekRemote),
     json_data |-> JSONBody(
         [StartPrefix |-> JSONBytes(a.startPrefix),
          ValidForPrefix |-> JSONBytes(a.validForPrefix),
          MaxKeyLen |-> a.maxKeyLen, NumToFetch |-> a.numToFetch,
          Reverse |-> a.reverse, FetchValues |-> a.fetchValues]),
     err |-> NoErr]

\* ------------------------------------------------------------- transport
RoutePaths == {RoutePathGlobalStatePutRemote, RoutePathGlobalStateGetRemote,
               RoutePathGlobalStateBatchGetRemote, RoutePathGlobalStateDeleteRemote,
               RoutePathGlobalStateSeekRemote}

\* A network maps a request (route and body) to what the addressed node's
\* handler answers and the databases it leaves behind. NoNetwork is the
\* network of a node that addresses no other node.
NoNetwork(dbs) ==
    [q \in {} |-> [resp |-> NoResponse, dbs |-> dbs, sent |-> << >>]]

\* One request put on the wire: the URL as http.Post parsed it and the body.
Posted(url, body) == [url |-> ParseURL(url), body |-> body]

\* The request rq travels to the addressed node and the response back: an
\* error when the transport fails, otherwise the response whatever its
\* status. `sent` lists the requests that went out: this one, then those
\* the serving handler sent.
RoundTrip(rq, env, dbs, network) ==
    LET served == network[<<rq.url.path, rq.body>>]
    IN CASE env.net = "refused" ->
              [err |-> "transport", resp |-> NoResponse, dbs |-> dbs,
               sent |-> <<rq>>]
         [] env.net = "lost" ->
              [err |-> "transport", resp |-> NoResponse, dbs |-> served.dbs,
               sent |-> <<rq>> \o served.sent]
         [] env.net = "garbled" ->
              [err |-> NoErr, resp |-> [served.resp EXCEPT !.body = Garbage],
               dbs |-> served.dbs, sent |-> <<rq>> \o served.sent]
         [] env.net = "mistyped" ->
              [err |-> NoErr,
               resp |-> [served.resp EXCEPT !.body = Mistyped(served.resp.body.doc)],
               dbs |-> served.dbs, sent |-> <<rq>> \o served.sent]
         [] OTHER ->
              [err |-> NoErr, resp |-> served.resp, dbs |-> served.dbs,
               sent |-> <<rq>> \o served.sent]

\* http.Post(url, "application/json", body): the URL is parsed and the
\* request sent.
HttpPost(url, body, env, dbs, network) ==
    RoundTrip(Posted(url, body), env, dbs, network)

\* json.NewDecoder(body).Decode(&res) with its error dropped: whatever
\* Decode stored in the response struct, the zero response when nothing.
DecodeIgnoringError(body) == body.doc

\* --------------------------------------------------- the five primitives
\* Each primitive forwards to the remote node when one is configured and
\* otherwise runs on the node's own database (its ...Local part).

\* db.Update(txn.Set(key, value))
GlobalStatePutLocal(store, key, value, fault) ==
    DBUpdate(store, TxnSet(store, key, value), fault)

\* A faulty variant of GlobalStatePut: after a transport failure the request
\* is posted a second time, to a network that delivers.
GlobalStatePutRetries(n, dbs, key, value, env, network) ==
    IF GlobalStateRemoteNode[n] # ""
    THEN LET rq == CreateGlobalStatePutRequest(n, key, value)
             res == HttpPost(rq.url, rq.json_data, env, dbs, network)
             again == HttpPost(rq.url, rq.json_data, Env(env.fault, "ok"), res.dbs, network)
         IN IF rq.err # NoErr
            THEN [err |-> "GlobalStatePut: Error constructing request", dbs |-> dbs,
                  sent |-> << >>]
            ELSE IF res.err # NoErr
            THEN [err |-> again.err, dbs |-> again.dbs, sent |-> res.sent \o again.sent]
            ELSE [err |-> NoErr, dbs |-> res.dbs, sent |-> res.sent]
    ELSE LET u == GlobalStatePutLocal(dbs[n], key, value, env.fault)
         IN [err |-> u.err, dbs |-> [dbs EXCEPT ![n] = u.store], sent |-> << >>]

\* A faulty variant of GlobalStatePut: with a remote node configured the
\* pair is written to the local database as well.
GlobalStatePutWritesThrough(n, dbs, key, value, env, network) ==
    LET u == GlobalStatePutLocal(dbs[n], key, value, env.fault)
        own == [dbs EXCEPT ![n] = u.store]
    IN IF GlobalStateRemoteNode[n] # ""
       THEN LET rq == CreateGlobalStatePutRequest(n, key, value)
                res == HttpPost(rq.url, rq.json_data, env, own, network)
            IN IF rq.err # NoErr
               THEN [err |-> "GlobalStatePut: Error constructing request", dbs |-> dbs,
                     sent |-> << >>]
               ELSE IF res.err # NoErr
               THEN [err |-> "GlobalStatePut: Error processing remote request",
                     dbs |-> res.dbs, sent |-> res.sent]
               ELSE [err |-> NoErr, dbs |-> res.dbs, sent |-> res.sent]
       ELSE [err |-> u.err, dbs |-> own, sent |-> << >>]

GlobalStatePut(n, dbs, key, value, env, network) ==
    IF GlobalStateRemoteNode[n] # ""
    THEN LET rq == CreateGlobalStatePutRequest(n, key, value)
             res == HttpPost(rq.url, rq.json_data, env, dbs, network)
         IN IF rq.err # NoErr
            THEN [err |-> "GlobalStatePut: Error constructing request", dbs |-> dbs,
                  sent |-> << >>]
            ELSE IF res.err # NoErr
            THEN [err |-> "GlobalStatePut: Error processing remote request", dbs |-> res.dbs,
                  sent |-> res.sent]
            ELSE [err |-> NoErr, dbs |-> res.dbs, sent |-> res.sent]
    ELSE LET u == GlobalStatePutLocal(dbs[n], key, value, env.fault)
         IN [err |-> u.err, dbs |-> [dbs EXCEPT ![n] = u.store], sent |-> << >>]

\* A faulty variant of GlobalStateGetLocal: the engine's not-found condition
\* (like every other lookup error) is handed to the caller.
GlobalStateGetLocalReportsNotFound(store, key, fault) ==
    LET got == TxnGet(store, key, fault)
        copied == ItemValueCopy(got.item, key, fault)
    IN IF got.err # NoErr
       THEN [value |-> << >>, err |-> got.err]
       ELSE IF copied.err # NoErr
       THEN [value |-> << >>,
             err |-> "GlobalStateGet: Error copying value into new slice"]
       ELSE [value |-> copied.val, err |-> NoErr]

\* The read transaction of GlobalStateGet and what is made of its result.
GlobalStateGetLocal(store, key, fault) ==
    LET got == TxnGet(store, key, fault)
        copied == ItemValueCopy(got.item, key, fault)
    IN IF got.err # NoErr
       THEN [value |-> << >>, err |-> NoErr]
       ELSE IF copied.err # NoErr
       THEN [value |-> << >>,
             err |-> "GlobalStateGet: Error copying value into new slice"]
       ELSE [value |-> copied.val, err |-> NoErr]

\* A faulty variant of GlobalStateGet: the error of decoding the response is
\* looked at and returned, with no value.
GlobalStateGetChecksDecode(n, dbs, key, env, network) ==
    IF GlobalStateRemoteNode[n] # ""
    THEN LET rq == CreateGlobalStateGetRequest(n, key)
             resReturned == HttpPost(rq.url, rq.json_data, env, dbs, network)
         IN IF rq.err # NoErr
            THEN [value |-> << >>, err |-> "GlobalStateGet: Error constructing request",
                  dbs |-> dbs, sent |-> << >>]
            ELSE IF resReturned.err # NoErr
            THEN [value |-> << >>, err |-> "GlobalStateGet: Error processing remote request",
                  dbs |-> dbs, sent |-> resReturned.sent]
            ELSE IF ~resReturned.resp.body.wellFormed
            THEN [value |-> << >>, err |-> "GlobalStateGet: Error decoding response",
                  dbs |-> dbs, sent |-> resReturned.sent]
            ELSE [value |-> BytesField(DecodeIgnoringError(resReturned.resp.body), "Value"),
                  err |-> NoErr, dbs |-> dbs, sent |-> resReturned.sent]
    ELSE LET got == GlobalStateGetLocal(dbs[n], key, env.fault)
         IN [value |-> got.value, err |-> got.err, dbs |-> dbs, sent |-> << >>]

GlobalStateGet(n, dbs, key, env, network) ==
    IF GlobalStateRemoteNode[n] # ""
    THEN LET rq == CreateGlobalStateGetRequest(n, key)
             resReturned == HttpPost(rq.url, rq.json_data, env, dbs, network)
         IN IF rq.err # NoErr
            THEN [value |-> << >>, err |-> "GlobalStateGet: Error constructing request",
                  dbs |-> dbs, sent |-> << >>]
            ELSE IF resReturned.err # NoErr
            THEN [value |-> << >>, err |-> "GlobalStateGet: Error processing remote request",
                  dbs |-> dbs, sent |-> resReturned.sent]
            ELSE [value |-> BytesField(DecodeIgnoringError(resReturned.resp.body), "Value"),
                  err |-> NoErr, dbs |-> dbs, sent |-> resReturned.sent]
    ELSE LET got == GlobalStateGetLocal(dbs[n], key, env.fault)
         IN [value |-> got.value, err |-> got.err, dbs |-> dbs, sent |-> << >>]

\* The loop of the read transaction of GlobalStateBatchGet, from the i-th key.
RECURSIVE BatchGetLoop(_, _, _, _, _)
BatchGetLoop(store, keyList, i, fault, retValueList) ==
    IF i > Len(keyList) THEN [err |-> NoErr, retValueList |-> retValueList]
    ELSE LET got == TxnGet(store, keyList[i], fault)
             copied == ItemValueCopy(got.item, keyList[i], fault)
         IN IF got.err # NoErr
            THEN BatchGetLoop(store, keyList, i + 1, fault, Append(retValueList, << >>))
            ELSE IF copied.err # NoErr
            THEN [err |-> copied.err, retValueList |-> retValueList]
            ELSE BatchGetLoop(store, keyList, i + 1, fault, Append(retValueList, copied.val))

\* A faulty variant of GlobalStateBatchGetLocal: when a copy fails, the
\* values collected so far are returned along with the error.
GlobalStateBatchGetLocalKeepsPartial(store, keyList, fault) ==
    LET view == BatchGetLoop(store, keyList, 1, fault, << >>)
    IN IF view.err # NoErr
       THEN [value |-> view.retValueList,
             err |-> "GlobalStateBatchGet: Error copying value into new slice"]
       ELSE [value |-> view.retValueList, err |-> NoErr]

GlobalStateBatchGetLocal(store, keyList, fault) ==
    LET view == BatchGetLoop(store, keyList, 1, fault, << >>)
    IN IF view.err # NoErr
       THEN [value |-> << >>,
             err |-> "GlobalStateBatchGet: Error copying value into new slice"]
       ELSE [value |-> view.retValueList, err |-> NoErr]

GlobalStateBatchGet(n, dbs, keyList, env, network) ==
    IF GlobalStateRemoteNode[n] # ""
    THEN LET rq == CreateGlobalStateBatchGetRequest(n, keyList)
             resReturned == HttpPost(rq.url, rq.json_data, env, dbs, network)
         IN IF rq.err # NoErr
            THEN [value |-> << >>, err |-> "GlobalStateBatchGet: Error constructing request",
                  dbs |-> dbs, sent |-> << >>]
            ELSE IF resReturned.err # NoErr
            THEN [value |-> << >>, err |-> "GlobalStateBatchGet: Error processing remote request",
                  dbs |-> dbs, sent |-> resReturned.sent]
            ELSE [value |-> ListField(DecodeIgnoringError(resReturned.resp.body), "ValueList"),
                  err |-> NoErr, dbs |-> dbs, sent |-> resReturned.sent]
    ELSE LET got == GlobalStateBatchGetLocal(dbs[n], keyList, env.fault)
         IN [value |-> got.value, err |-> got.err, dbs |-> dbs, sent |-> << >>]

\* A faulty variant of GlobalStateDeleteLocal: the key is looked up first
\* and its absence is reported.
GlobalStateDeleteLocalMissingKeyFails(store, key, fault) ==
    IF key \notin DOMAIN store
    THEN [err |-> "ErrKeyNotFound", store |-> store]
    ELSE DBUpdate(store, TxnDelete(store, key), fault)

\* db.Update(txn.Delete(key))
GlobalStateDeleteLocal(store, key, fault) ==
    DBUpdate(store, TxnDelete(store, key), fault)

GlobalStateDelete(n, dbs, key, env, network) ==
    IF GlobalStateRemoteNode[n] # ""
    THEN LET rq == CreateGlobalStateDeleteRequest(n, key)
             res == HttpPost(rq.url, rq.json_data, env, dbs, network)
         IN IF rq.err # NoErr
            THEN [err |-> "GlobalStateDelete: Could not construct request", dbs |-> dbs,
                  sent |-> << >>]
            ELSE IF res.err # NoErr
            THEN [err |-> "GlobalStateDelete: Error processing remote request", dbs |-> res.dbs,
                  sent |-> res.sent]
            ELSE [err |-> NoErr, dbs |-> res.dbs, sent |-> res.sent]
    ELSE LET u == GlobalStateDeleteLocal(dbs[n], key, env.fault)
         IN [err |-> u.err, dbs |-> [dbs EXCEPT ![n] = u.store], sent |-> << >>]

GlobalStateSeekLocal(store, a, fault) ==
    LET got == DBGetPaginatedKeysAndValuesForPrefix(store, a, fault)
    IN IF got.err # NoErr
       THEN [keysFound |-> << >>, valsFound |-> << >>,
             err |-> "GlobalStateSeek: Error getting paginated keys and values"]
       ELSE [keysFound |-> got.keysFound, valsFound |-> got.valsFound, err |-> NoErr]

GlobalStateSeek(n, dbs, a, env, network) ==
    IF GlobalStateRemoteNode[n] # ""
    THEN LET rq == CreateGlobalStateSeekRequest(n, a)
             resReturned == HttpPost(rq.url, rq.json_data, env, dbs, network)
             res == DecodeIgnoringError(resReturned.resp.body)
         IN IF rq.err # NoErr
            THEN [keysFound |-> << >>, valsFound |-> << >>,
                  err |-> "GlobalStateSeek: Error constructing request", dbs |-> dbs,
                  sent |-> << >>]
            ELSE IF resReturned.err # NoErr
            THEN [keysFound |-> << >>, valsFound |-> << >>,
                  err |-> "GlobalStateSeek: Error processing remote request",
                  dbs |-> dbs, sent |-> resReturned.sent]
            ELSE [keysFound |-> ListField(res, "KeysFound"),
                  valsFound |-> ListField(res, "ValsFound"), err |-> NoErr,
                  dbs |-> dbs, sent |-> resReturned.sent]
    ELSE LET got == GlobalStateSeekLocal(dbs[n], a, env.fault)
         IN [keysFound |-> got.keysFound, valsFound |-> got.valsFound,
             err |-> got.err, dbs |-> dbs, sent |-> << >>]

\* ---------------------------------------------------------- the handlers
\* What a handler leaves behind: the response it wrote, the databases, the
\* requests sent on while it ran, and the primitive it dispatched to with
\* the error that primitive returned (nothing when it dispatched to none).
Answer(resp, dbs, sent, dispatched) ==
    [resp |-> resp, dbs |-> dbs, sent |-> sent, dispatched |-> dispatched]
Dispatched(op, err) == <<[op |-> op, err |-> err]>>

\* The response struct a handler fills from what the primitive returned.
ResponseDoc(op, r) ==
    CASE op = "get" -> [Value |-> JSONBytes(r.value)]
      [] op = "batchGet" -> [ValueList |-> [i \in 1..Len(r.value) |-> JSONBytes(r.value[i])]]
      [] op = "seek" ->
            [KeysFound |-> [i \in 1..Len(r.keysFound) |-> JSONBytes(r.keysFound[i])],
             ValsFound |-> [i \in 1..Len(r.valsFound) |-> JSONBytes(r.valsFound[i])]]
      [] OTHER -> << >>

\* What a handler does once the primitive has returned r: an error is
\* answered with _AddBadRequestError and the handler returns; otherwise the
\* response struct is encoded.
Respond(problem, op, r) ==
    Answer(IF r.err # NoErr THEN AddBadRequestError(problem)
           ELSE EncodeResponse(ResponseDoc(op, r)),
           r.dbs, r.sent, Dispatched(op, r.err))

GlobalStatePutRemote(n, body, env, dbs, network) ==
    IF ~body.wellFormed
    THEN Answer(AddBadRequestError("GlobalStatePutRemote: Problem parsing request body"),
                dbs, << >>, << >>)
    ELSE Respond("GlobalStatePutRemote: Error processing GlobalStatePut", "put",
                 GlobalStatePut(n, dbs, BytesField(body.doc, "Key"),
                                BytesField(body.doc, "Value"), env, network))

\* A faulty variant of GlobalStateGetRemote: the error of GlobalStateGet is
\* not looked at, the response is encoded whatever it returned.
GlobalStateGetRemoteIgnoresError(n, body, env, dbs, network) ==
    IF ~body.wellFormed
    THEN Answer(AddBadRequestError("GlobalStateGetRemote: Problem parsing request body"),
                dbs, << >>, << >>)
    ELSE LET r == GlobalStateGet(n, dbs, BytesField(body.doc, "Key"), env, network)
         IN Answer(EncodeResponse(ResponseDoc("get", r)), dbs, r.sent,
                   Dispatched("get", r.err))

GlobalStateGetRemote(n, body, env, dbs, network) ==
    IF ~body.wellFormed
    THEN Answer(AddBadRequestError("GlobalStateGetRemote: Problem parsing request body"),
                dbs, << >>, << >>)
    ELSE Respond("GlobalStateGetRemote: Error processing GlobalStateGet", "get",
                 GlobalStateGet(n, dbs, BytesField(body.doc, "Key"), env, network))

GlobalStateBatchGetRemote(n, body, env, dbs, network) ==
    IF ~body.wellFormed
    THEN Answer(AddBadRequestError("GlobalStateBatchGetRemote: Problem parsing request body"),
                dbs, << >>, << >>)
    ELSE Respond("GlobalStateBatchGetRemote: Error processing GlobalStateBatchGet", "batchGet",
                 GlobalStateBatchGet(n, dbs, ListField(body.doc, "KeyList"), env, network))

\* A faulty variant of GlobalStateDeleteRemote: the delete is dispatched
\* before the outcome of decoding the request is looked at.
GlobalStateDeleteRemoteDispatchesFirst(n, body, env, dbs, network) ==
    Respond(IF ~body.wellFormed
            THEN "GlobalStateDeleteRemote: Problem parsing request body"
            ELSE "GlobalStateDeleteRemote: Error processing GlobalStateDelete", "delete",
            GlobalStateDelete(n, dbs, BytesField(body.doc, "Key"), env, network))

GlobalStateDeleteRemote(n, body, env, dbs, network) ==
    IF ~body.wellFormed
    THEN Answer(AddBadRequestError("GlobalStateDeleteRemote: Problem parsing request body"),
                dbs, << >>, << >>)
    ELSE Respond("GlobalStateDeleteRemote: Error processing GlobalStateDelete", "delete",
                 GlobalStateDelete(n, dbs, BytesField(body.doc, "Key"), env, network))

\* A scalar field of a decoded document, `zero` when the document lacks it.
ScalarField(doc, name, zero) ==
    IF name \in DOMAIN doc THEN doc[name] ELSE zero

\* A faulty variant of GlobalStateSeekRemote: the two prefixes of the
\* request are handed to GlobalStateSeek in each other's place.
GlobalStateSeekRemoteSwapsPrefixes(n, body, env, dbs, network) ==
    IF ~body.wellFormed
    THEN Answer(AddBadRequestError("GlobalStateSeekRemote: Problem parsing request body"),
                dbs, << >>, << >>)
    ELSE Respond("GlobalStateSeekRemote: Error processing GlobalStateSeek", "seek",
                 GlobalStateSeek(n, dbs,
                     SeekArgs(BytesField(body.doc, "ValidForPrefix"),
                              BytesField(body.doc, "StartPrefix"),
                              ScalarField(body.doc, "MaxKeyLen", 0),
                              ScalarField(body.doc, "NumToFetch", 0),
                              ScalarField(body.doc, "Reverse", FALSE),
                              ScalarField(body.doc, "FetchValues", FALSE)),
                     env, network))

\* A faulty variant of GlobalStateSeekRemote: the request's FetchValues is
\* not honoured, values are always fetched.
GlobalStateSeekRemoteAlwaysFetches(n, body, env, dbs, network) ==
    IF ~body.wellFormed
    THEN Answer(AddBadRequestError("GlobalStateSeekRemote: Problem parsing request body"),
                dbs, << >>, << >>)
    ELSE Respond("GlobalStateSeekRemote: Error processing GlobalStateSeek", "seek",
                 GlobalStateSeek(n, dbs,
                     SeekArgs(BytesField(body.doc, "StartPrefix"),
                              BytesField(body.doc, "ValidForPrefix"),
                              ScalarField(body.doc, "MaxKeyLen", 0),
                              ScalarField(body.doc, "NumToFetch", 0),
                              ScalarField(body.doc, "Reverse", FALSE),
                              TRUE),
                     env, network))

GlobalStateSeekRemote(n, body, env, dbs, network) ==
    IF ~body.wellFormed
    THEN Answer(AddBadRequestError("GlobalStateSeekRemote: Problem parsing request body"),
                dbs, << >>, << >>)
    ELSE Respond("GlobalStateSeekRemote: Error processing GlobalStateSeek", "seek",
                 GlobalStateSeek(n, dbs,
                     SeekArgs(BytesField(body.doc, "StartPrefix"),
                              BytesField(body.doc, "ValidForPrefix"),
                              ScalarField(body.doc, "MaxKeyLen", 0),
                              ScalarField(body.doc, "NumToFetch", 0),
                              ScalarField(body.doc, "Reverse", FALSE),
                              ScalarField(body.doc, "FetchValues", FALSE)),
                     env, network))

\* GlobalStateRoutes: the handler each route of node `host` runs.
ServeHTTP(host, path, body, env, dbs, network) ==
    CASE path = RoutePathGlobalStatePutRemote ->
            GlobalStatePutRemote(host, body, env, dbs, network)
      [] path = RoutePathGlobalStateGetRemote ->
            GlobalStateGetRemote(host, body, env, dbs, network)
      [] path = RoutePathGlobalStateBatchGetRemote ->
            GlobalStateBatchGetRemote(host, body, env, dbs, network)
      [] path = RoutePathGlobalStateDeleteRemote ->
            GlobalStateDeleteRemote(host, body, env, dbs, network)
      [] path = RoutePathGlobalStateSeekRemote ->
            GlobalStateSeekRemote(host, body, env, dbs, network)

\* The network as node n sees it when it sends a request with one of the
\* given bodies: the node that GlobalStateRemoteNode names serves it, on
\* whichever route; that node, the owner, addresses no further node.
NetworkFor(n, bodies, env, dbs) ==
    IF GlobalStateRemoteNode[n] = "" THEN NoNetwork(dbs)
    ELSE [q \in RoutePaths \X bodies |->
             ServeHTTP(GlobalStateRemoteNode[n], q[1], q[2], env, dbs, NoNetwork(dbs))]

\* The network as node n sees it when it sends the request rq.
Network(n, rq, env, dbs) == NetworkFor(n, {rq.json_data}, env, dbs)

\* The primitives as a caller on node n invokes them.
PutOn(n, dbs, key, value, env) ==
    GlobalStatePut(n, dbs, key, value, env,
                   Network(n, CreateGlobalStatePutRequest(n, key, value), env, dbs))
GetOn(n, dbs, key, env) ==
    GlobalStateGet(n, dbs, key, env,
                   Network(n, CreateGlobalStateGetRequest(n, key), env, dbs))
BatchGetOn(n, dbs, keyList, env) ==
    GlobalStateBatchGet(n, dbs, keyList, env,
                        Network(n, CreateGlobalStateBatchGetRequest(n, keyList), env, dbs))
DeleteOn(n, dbs, key, env) ==
    GlobalStateDelete(n, dbs, key, env,
                      Network(n, CreateGlobalStateDeleteRequest(n, key), env, dbs))
SeekOn(n, dbs, a, env) ==
    GlobalStateSeek(n, dbs, a, env,
                    Network(n, CreateGlobalStateSeekRequest(n, a), env, dbs))

\* ------------------------------------------------------ the state machine
VARIABLES
    db,       \* the badger database (fes.GlobalStateDB) of each node
    last,     \* the primitive that has just returned to its caller, with
              \* its arguments and what it returned, or (op "request") the
              \* handler that has just answered a client; op "none" between
              \* calls
    calls,    \* concurrent callers: the call each node's caller has in
              \* progress and how far it has got
    acked,    \* per key, the last put or delete known to have returned
              \* without error and not been overtaken by another write
    built,    \* key construction: two sets of key fields and, once the key
              \* functions have been applied, the keys built from them
    hop       \* a fleet of instances with any remote-node configuration:
              \* the configuration and how far one operation has travelled

vars == <<db, last, calls, acked, built, hop>>

NoSeek == SeekArgs(<< >>, << >>, 0, 0, FALSE, FALSE)

\* What a primitive hands back to its caller.
Outcome(err, value, valueList, keysFound, valsFound) ==
    [err |-> err, value |-> value, valueList |-> valueList,
     keysFound |-> keysFound, valsFound |-> valsFound]
PutOutcome(r) == Outcome(r.err, << >>, << >>, << >>, << >>)
GetOutcome(r) == Outcome(r.err, r.value, << >>, << >>, << >>)
BatchGetOutcome(r) == Outcome(r.err, << >>, r.value, << >>, << >>)
SeekOutcome(r) == Outcome(r.err, << >>, << >>, r.keysFound, r.valsFound)

\* A finished call: the primitive, the node it was invoked on, its
\* arguments, what the engine and the network did during it (env), the
\* owner's database before it (pre) and what it returned (out); `sent` are
\* the requests that went out on the network during it. For a request to a
\* handler: the route, the body, the response written and the primitive
\* the handler dispatched to.
Call(op, n, key, value, keyList, seek, env, pre, out) ==
    [op |-> op, node |-> n, key |-> key, value |-> value, keyList |-> keyList,
     seek |-> seek, env |-> env, pre |-> pre, out |-> out,
     sent |-> << >>, route |-> "", body |-> Garbage, resp |-> NoResponse,
     dispatched |-> << >>]

NoOutcome == Outcome(NoErr, << >>, << >>, << >>, << >>)
Idle == Call("none", "owner", << >>, << >>, << >>, NoSeek, Env(NoFault, "ok"),
             EmptyDB, NoOutcome)

\* What engine and network can do to a call on node n: a direct call never
\* touches the network; a forwarded one is delivered, refused before the
\* owner sees it, answered into the void (for a write, where it matters),
\* or answered with a body that cannot be decoded (for a read: a write
\* never reads the body).
Envs(n, faults, isWrite) ==
    IF GlobalStateRemoteNode[n] = ""
    THEN {Env(f, "ok") : f \in faults}
    ELSE {Env(f, "ok") : f \in faults} \cup {Env(NoFault, "refused")}
         \cup (IF isWrite THEN {Env(f, "lost") : f \in faults}
               ELSE {Env(NoFault, net) : net \in {"garbled", "mistyped"}})

\* ---- concurrent callers
\* What is known of a key's last write: nothing, or that a put of `value`
\* or a delete invoked on `node` has returned without error.
Unknown == [state |-> "unknown", value |-> << >>, node |-> "owner"]
Acked(state, value, n) == [state |-> state, value |-> value, node |-> n]

\* A caller's call in progress: `phase` is how far it has got ("called":
\* invoked; "sent": its request is on the wire; "answered": the owner's
\* response is on the wire; "returned": the primitive has returned `out`),
\* `resp` the response on the wire, `clean` whether no other write of the
\* key overlaps this one, `sees` what was known of the key when a get began.
FleetCall(phase, op, key, value, resp, out, clean, sees) ==
    [phase |-> phase, op |-> op, key |-> key, value |-> value, resp |-> resp,
     out |-> out, clean |-> clean, sees |-> sees]
NoCall == FleetCall("idle", "none", << >>, << >>, NoResponse, NoOutcome, FALSE, Unknown)

\* No key construction and no travelling operation under way.
NoKeys == [phase |-> "none"]
NoHop == [phase |-> "none"]

Init ==
    /\ db = [n \in Node |-> EmptyDB]
    /\ last = Idle
    /\ calls = [c \in Node |-> NoCall]
    /\ acked = [k \in FleetKey |-> Unknown]
    /\ built = NoKeys
    /\ hop = NoHop

DoPut(n, key, value, env) ==
    /\ LET r == PutOn(n, db, key, value, env)
       IN /\ db' = r.dbs
          /\ last' = [Call("put", n, key, value, << >>, NoSeek, env, db.owner,
                          PutOutcome(r))
                            EXCEPT !.sent = r.sent]
    /\ UNCHANGED <<calls, acked, built, hop>>

DoGet(n, key, env) ==
    /\ LET r == GetOn(n, db, key, env)
       IN last' = [Call("get", n, key, << >>, << >>, NoSeek, env, db.owner,
                       GetOutcome(r))
                         EXCEPT !.sent = r.sent]
    /\ UNCHANGED <<db, calls, acked, built, hop>>

DoBatchGet(n, keyList, env) ==
    /\ LET r == BatchGetOn(n, db, keyList, env)
       IN last' = [Call("batchGet", n, << >>, << >>, keyList, NoSeek, env, db.owner,
                       BatchGetOutcome(r))
                         EXCEPT !.sent = r.sent]
    /\ UNCHANGED <<db, calls, acked, built, hop>>

DoDelete(n, key, env) ==
    /\ LET r == DeleteOn(n, db, key, env)
       IN /\ db' = r.dbs
          /\ last' = [Call("delete", n, key, << >>, << >>, NoSeek, env, db.owner,
                          PutOutcome(r))
                            EXCEPT !.sent = r.sent]
    /\ UNCHANGED <<calls, acked, built, hop>>

DoSeek(n, a, env) ==
    /\ LET r == SeekOn(n, db, a, env)
       IN last' = [Call("seek", n, << >>, << >>, << >>, a, env, db.owner,
                       SeekOutcome(r))
                         EXCEPT !.sent = r.sent]
    /\ UNCHANGED <<db, calls, acked, built, hop>>

\* The caller takes the result; the next call can start.
Return ==
    /\ last.op # "none"
    /\ last' = Idle
    /\ UNCHANGED <<db, calls, acked, built, hop>>

KeyLists == SeqsUpTo(Key, MaxBatch)
AllSeekArgs ==
    {SeekArgs(s, v, m, c, r, f) :
        s \in Prefixes, v \in Prefixes, m \in 0..LongestKey, c \in 0..MaxFetch,
        r \in BOOLEAN, f \in BOOLEAN}

\* The keys whose value a seek may try to copy.
CopyFaults(a) ==
    {NoFault} \cup
    (IF a.fetchValues THEN {[kind |-> "copy", key |-> k] : k \in DOMAIN db.owner}
     ELSE {})

\* The seeks a client asks a handler for: the keys of one kind.
ClientSeekArgs ==
    {SeekArgs(v, v, LongestKey, c, r, f) :
        v \in Prefixes, c \in 0..MaxFetch, r \in BOOLEAN, f \in BOOLEAN}

\* The requests a client sends to the handlers: the body a
\* CreateGlobalState...Request builds for the route, with the keys it names
\* (for a seek, its parameters) and whether it writes.
ClientRequest(rq, keys, a, isWrite) ==
    [route |-> ParseURL(rq.url).path, body |-> rq.json_data, keys |-> keys, seek |-> a,
     isWrite |-> isWrite]
ClientRequests ==
    {ClientRequest(CreateGlobalStatePutRequest("proxy", k, v), {k}, NoSeek, TRUE) :
        k \in Key, v \in Value}
    \cup {ClientRequest(CreateGlobalStateGetRequest("proxy", k), {k}, NoSeek, FALSE) :
             k \in Key}
    \cup {ClientRequest(CreateGlobalStateBatchGetRequest("proxy", l),
                        {l[i] : i \in 1..Len(l)}, NoSeek, FALSE) : l \in KeyLists}
    \cup {ClientRequest(CreateGlobalStateDeleteRequest("proxy", k), {k}, NoSeek, TRUE) :
             k \in Key}
    \cup {ClientRequest(CreateGlobalStateSeekRequest("proxy", a), {}, a, FALSE) :
             a \in ClientSeekArgs}
ClientBodies == {c.body : c \in ClientRequests}

\* The bodies a client can send in place of `body`: the body itself, no
\* JSON at all, or the same members with one of the wrong type added.
Bodies(body) == {body, Garbage, Mistyped(body.doc)}

\* A client posts `body` to `route` of node n; the handler answers.
DoRequest(n, route, body, env) ==
    /\ LET a == ServeHTTP(n, route, body, env, db,
                          NetworkFor(n, ClientBodies, env, db))
       IN /\ db' = a.dbs
          /\ last' = [Call("request", n, << >>, << >>, << >>, NoSeek, env,
                           db.owner, NoOutcome)
                      EXCEPT !.sent = a.sent, !.route = route, !.body = body,
                             !.resp = a.resp, !.dispatched = a.dispatched]
    /\ UNCHANGED <<calls, acked, built, hop>>

Put(n) ==
    /\ last.op = "none"
    /\ \E key \in Key, value \in Value :
          \E env \in Envs(n, WriteFaults, TRUE) : DoPut(n, key, value, env)
Get(n) ==
    /\ last.op = "none"
    /\ \E key \in Key :
          \E env \in Envs(n, ReadFaults({key}), FALSE) : DoGet(n, key, env)
BatchGet(n) ==
    /\ last.op = "none"
    /\ \E keyList \in KeyLists :
          \E env \in Envs(n, ReadFaults({keyList[i] : i \in 1..Len(keyList)}), FALSE) :
              DoBatchGet(n, keyList, env)
Delete(n) ==
    /\ last.op = "none"
    /\ \E key \in Key :
          \E env \in Envs(n, WriteFaults, TRUE) : DoDelete(n, key, env)
Seek(n) ==
    /\ last.op = "none"
    /\ \E a \in AllSeekArgs :
          \E env \in Envs(n, CopyFaults(a), FALSE) : DoSeek(n, a, env)

\* What engine and network can do while the request is handled: nothing
\* that matters when the body is undecodable, the handler returning at once.
RequestEnvs(n, rq, body) ==
    IF ~body.wellFormed THEN {Env(NoFault, "ok")}
    ELSE Envs(n, CASE rq.isWrite -> WriteFaults
                   [] rq.route = RoutePathGlobalStateSeekRemote -> CopyFaults(rq.seek)
                   [] OTHER -> ReadFaults(rq.keys),
              rq.isWrite)

Request(n) ==
    /\ last.op = "none"
    /\ \E rq \in ClientRequests :
          \E body \in Bodies(rq.body) :
              \E env \in RequestEnvs(n, rq, body) : DoRequest(n, rq.route, body, env)

Next ==
    \/ \E n \in Node : Put(n)
    \/ \E n \in Node : Get(n)
    \/ \E n \in Node : BatchGet(n)
    \/ \E n \in Node : Delete(n)
    \/ \E n \in Node : Seek(n)
    \/ \E n \in Node : Request(n)
    \/ Return

Spec == Init /\ [][Next]_vars

\* ------------------------------------------------- the fleet, concurrently
\* One caller per node, each with one call at a time; the calls of different
\* nodes interleave at the steps a call really takes: a direct call is one
\* transaction on the owner's database; a forwarded call is the request
\* going out, the owner's handler serving it, and the response coming back.
FleetOps == {"put", "get", "delete"}
IsWrite(op) == op \in {"put", "delete"}
Pending(c) == calls[c].phase \notin {"idle", "returned"}

Invoke(c) ==
    /\ calls[c].phase = "idle"
    /\ \E op \in FleetOps, key \in FleetKey :
         \E value \in (IF op = "put" THEN Value ELSE {<< >>}) :
            LET overlaps == \E d \in Node \ {c} :
                               Pending(d) /\ IsWrite(calls[d].op) /\ calls[d].key = key
                mine == FleetCall("called", op, key, value, NoResponse, NoOutcome,
                                  IsWrite(op) /\ ~overlaps,
                                  IF op = "get" THEN acked[key] ELSE Unknown)
            IN /\ calls' = [d \in Node |->
                              IF d = c THEN mine
                              ELSE IF IsWrite(op) /\ Pending(d) /\ calls[d].key = key
                              THEN [calls[d] EXCEPT !.clean = FALSE, !.sees = Unknown]
                              ELSE calls[d]]
               /\ acked' = IF IsWrite(op) THEN [acked EXCEPT ![key] = Unknown]
                           ELSE acked
    /\ UNCHANGED <<db, last, built, hop>>

\* The primitive of caller c returns `out` to it.
Returns(c, out) ==
    /\ calls' = [calls EXCEPT ![c].phase = "returned", ![c].out = out]
    /\ acked' = IF IsWrite(calls[c].op) /\ out.err = NoErr /\ calls[c].clean
                THEN [acked EXCEPT ![calls[c].key] =
                         Acked(IF calls[c].op = "put" THEN "put" ELSE "deleted",
                               calls[c].value, c)]
                ELSE acked

\* The engine faults that can hit the transaction of call c.
FleetFaults(c) ==
    IF IsWrite(calls[c].op) THEN WriteFaults ELSE ReadFaults({calls[c].key})

\* The primitive of call c on node n with the given environment and network:
\* what it returns and the databases afterwards.
Primitive(c, n, env, network) ==
    CASE calls[c].op = "put" ->
            LET r == GlobalStatePut(n, db, calls[c].key, calls[c].value, env, network)
            IN [out |-> PutOutcome(r), dbs |-> r.dbs]
      [] calls[c].op = "delete" ->
            LET r == GlobalStateDelete(n, db, calls[c].key, env, network)
            IN [out |-> PutOutcome(r), dbs |-> r.dbs]
      [] calls[c].op = "get" ->
            [out |-> GetOutcome(GlobalStateGet(n, db, calls[c].key, env, network)),
             dbs |-> db]

\* The request call c puts on the wire.
FleetRequest(c) ==
    CASE calls[c].op = "put" -> CreateGlobalStatePutRequest(c, calls[c].key, calls[c].value)
      [] calls[c].op = "delete" -> CreateGlobalStateDeleteRequest(c, calls[c].key)
      [] calls[c].op = "get" -> CreateGlobalStateGetRequest(c, calls[c].key)

\* The network that hands call c the response that is on the wire for it.
Answering(c) ==
    [q \in {<<ParseURL(FleetRequest(c).url).path, FleetRequest(c).json_data>>} |->
        [resp |-> calls[c].resp, dbs |-> db, sent |-> << >>]]

\* A call on a node without remote owner runs its transaction and returns.
Run(c) ==
    /\ calls[c].phase = "called"
    /\ GlobalStateRemoteNode[c] = ""
    /\ \E f \in FleetFaults(c) :
          LET r == Primitive(c, c, Env(f, "ok"), NoNetwork(db))
          IN /\ db' = r.dbs
             /\ Returns(c, r.out)
    /\ UNCHANGED <<last, built, hop>>

\* A call on a node with a remote owner posts its request: it reaches the
\* wire, or the connection is refused and the primitive returns.
Post(c) ==
    /\ calls[c].phase = "called"
    /\ GlobalStateRemoteNode[c] # ""
    /\ \/ /\ calls' = [calls EXCEPT ![c].phase = "sent"]
          /\ UNCHANGED acked
       \/ Returns(c, Primitive(c, c, Env(NoFault, "refused"), NoNetwork(db)).out)
    /\ UNCHANGED <<db, last, built, hop>>

\* The owner's handler serves the request of call c and answers.
Serve(c) ==
    /\ calls[c].phase = "sent"
    /\ \E f \in FleetFaults(c) :
          LET served == ServeHTTP(GlobalStateRemoteNode[c], ParseURL(FleetRequest(c).url).path,
                                  FleetRequest(c).json_data, Env(f, "ok"), db,
                                  NoNetwork(db))
          IN /\ db' = served.dbs
             /\ calls' = [calls EXCEPT ![c].phase = "answered", ![c].resp = served.resp]
    /\ UNCHANGED <<last, acked, built, hop>>

\* The response reaches the caller's node, or is lost on the way, and the
\* primitive returns.
Deliver(c) ==
    /\ calls[c].phase = "answered"
    /\ \E net \in {"ok", "lost"} :
          Returns(c, Primitive(c, c, Env(NoFault, net), Answering(c)).out)
    /\ UNCHANGED <<db, last, built, hop>>

\* The caller takes the result; its next call can start.
Collect(c) ==
    /\ calls[c].phase = "returned"
    /\ calls' = [calls EXCEPT ![c] = NoCall]
    /\ UNCHANGED <<db, last, acked, built, hop>>

FleetNext ==
    \/ \E c \in Node : Invoke(c)
    \/ \E c \in Node : Run(c)
    \/ \E c \in Node : Post(c)
    \/ \E c \in Node : Serve(c)
    \/ \E c \in Node : Deliver(c)
    \/ \E c \in Node : Collect(c)

FleetSpec == Init /\ [][FleetNext]_vars

\* ----------------------------------------------- properties of single calls
\* A call has returned; it ran on the owner's own database, or was forwarded.
Finished == last.op \notin {"none", "request"}
OnOwner == Finished /\ GlobalStateRemoteNode[last.node] = ""
Forwarded == Finished /\ GlobalStateRemoteNode[last.node] # ""

\* The databases as the finished call found them.
PreDBs == [db EXCEPT !.owner = last.pre]

\* The request a forwarded call puts on the wire.
RequestOf(c) ==
    CASE c.op = "put" -> CreateGlobalStatePutRequest(c.node, c.key, c.value)
      [] c.op = "get" -> CreateGlobalStateGetRequest(c.node, c.key)
      [] c.op = "batchGet" -> CreateGlobalStateBatchGetRequest(c.node, c.keyList)
      [] c.op = "delete" -> CreateGlobalStateDeleteRequest(c.node, c.key)
      [] c.op = "seek" -> CreateGlobalStateSeekRequest(c.node, c.seek)

\* What the owner answers to the request of the finished call.
OwnerResponse ==
    ServeHTTP("owner", ParseURL(RequestOf(last).url).path, RequestOf(last).json_data,
              Env(last.env.fault, "ok"), PreDBs, NoNetwork(PreDBs)).resp

\* The finished call as it goes when invoked on the owner itself, on the
\* same database and with the engine behaving the same way.
Direct ==
    LET e == Env(last.env.fault, "ok")
    IN CASE last.op = "put" ->
              LET r == PutOn("owner", PreDBs, last.key, last.value, e)
              IN [out |-> PutOutcome(r), store |-> r.dbs.owner]
         [] last.op = "delete" ->
              LET r == DeleteOn("owner", PreDBs, last.key, e)
              IN [out |-> PutOutcome(r), store |-> r.dbs.owner]
         [] last.op = "get" ->
              [out |-> GetOutcome(GetOn("owner", PreDBs, last.key, e)),
               store |-> last.pre]
         [] last.op = "batchGet" ->
              [out |-> BatchGetOutcome(BatchGetOn("owner", PreDBs, last.keyList, e)),
               store |-> last.pre]
         [] last.op = "seek" ->
              [out |-> SeekOutcome(SeekOn("owner", PreDBs, last.seek, e)),
               store |-> last.pre]
         [] OTHER -> [out |-> NoOutcome, store |-> last.pre]

\* Two outcomes agree value for value and in being an error or not.
SameResult(a, b) ==
    /\ (a.err = NoErr) = (b.err = NoErr)
    /\ a.value = b.value
    /\ a.valueList = b.valueList
    /\ a.keysFound = b.keysFound
    /\ a.valsFound = b.valsFound

\* C2. Dispatch transparency: a primitive invoked on an instance that
\* forwards to the owner, with the network delivering request and response,
\* returns the same values and the same error/no-error outcome, and leaves
\* the owner's store in the same state, as the primitive invoked on the
\* owner itself.
C2_DispatchTransparency ==
    (Forwarded /\ last.env.net = "ok") =>
        /\ SameResult(last.out, Direct.out)
        /\ db.owner = Direct.store

\* C3. Batch order preservation: a successful GlobalStateBatchGet(keys) on
\* the owner returns a list as long as keys, whose i-th entry is the stored
\* value of keys[i] when that key is present and is empty exactly when
\* keys[i] is absent from the store.
C3_BatchOrderPreservation ==
    (OnOwner /\ last.op = "batchGet" /\ last.out.err = NoErr) =>
        /\ Len(last.out.valueList) = Len(last.keyList)
        /\ \A i \in 1..Len(last.keyList) :
              /\ last.keyList[i] \in DOMAIN last.pre
                    => last.out.valueList[i] = last.pre[last.keyList[i]]
              /\ (last.out.valueList[i] = << >>)
                    <=> (last.keyList[i] \notin DOMAIN last.pre)

C5_ValueOmission ==
    (Finished /\ last.op = "seek" /\ ~last.seek.fetchValues) =>
        LET ks == last.out.keysFound
            vs == last.out.valsFound
        IN \/ vs = << >>
           \/ /\ Len(vs) = Len(ks)
              /\ \A i \in 1..Len(vs) : vs[i] = << >>

\* A forwarded seek without values has returned a key that is stored with a
\* non-empty value.
C5_Witness ==
    /\ Forwarded /\ last.op = "seek" /\ ~last.seek.fetchValues
    /\ last.out.err = NoErr
    /\ \E i \in 1..Len(last.out.keysFound) :
          /\ last.out.keysFound[i] \in DOMAIN last.pre
          /\ last.pre[last.out.keysFound[i]] # << >>

\* C7. On the remote path a primitive returns an error whenever the network
\* call fails at transport level or the owner answers with a non-2xx status.
C7_RemoteFailureIsAnError ==
    (Forwarded /\ (\/ last.env.net \in {"refused", "lost"}
                   \/ OwnerResponse.status \notin 200..299)) =>
        last.out.err # NoErr

\* C8. Local storage failures propagate: when the engine fails a lookup with
\* an error other than key-not-found, GlobalStateGet and GlobalStateBatchGet
\* on the owner return an error.
C8_LookupFailurePropagates ==
    (OnOwner /\ last.op \in {"get", "batchGet"} /\ last.env.fault.kind = "lookup") =>
        last.out.err # NoErr

\* C9. A missing key is not an error for get: on the owner, GlobalStateGet of
\* a key absent from the store returns an empty value and no error.
C9_MissingKeyIsNotAnError ==
    (OnOwner /\ last.op = "get" /\ last.key \notin DOMAIN last.pre) =>
        /\ last.out.err = NoErr
        /\ last.out.value = << >>

\* A get of an absent key has returned on an owner that stores other keys.
C9_Witness ==
    /\ OnOwner /\ last.op = "get"
    /\ last.key \notin DOMAIN last.pre
    /\ \E k \in DOMAIN last.pre : last.pre[k] # << >>
    /\ last.out.err = NoErr

\* The delete that has just returned, invoked once more.
DeleteAgain == DeleteOn("owner", db, last.key, last.env)

\* C10 as stated. Deleting an absent key is not an error and is idempotent:
\* on the owner, GlobalStateDelete of an absent key returns no error and
\* leaves the store unchanged, and a second delete gives the same store and
\* the same outcome.
C10_DeleteAbsentNeverFails ==
    (OnOwner /\ last.op = "delete" /\ last.key \notin DOMAIN last.pre) =>
        /\ last.out.err = NoErr
        /\ db.owner = last.pre
        /\ DeleteAgain.dbs = db
        /\ DeleteAgain.err = last.out.err

\* C10, amended. On the owner, GlobalStateDelete of an absent key returns no
\* error unless the engine fails the write transaction, and then it returns
\* that failure; either way the store is unchanged, and a second delete
\* gives the same store and the same outcome.
C10_DeleteAbsentIdempotent ==
    (OnOwner /\ last.op = "delete" /\ last.key \notin DOMAIN last.pre) =>
        /\ (last.out.err = NoErr) <=> (last.env.fault.kind # "txn")
        /\ db.owner = last.pre
        /\ DeleteAgain.dbs = db
        /\ DeleteAgain.err = last.out.err

\* A delete of an absent key has returned without error on an owner that
\* stores other keys.
C10_Witness ==
    /\ OnOwner /\ last.op = "delete"
    /\ last.key \notin DOMAIN last.pre
    /\ last.pre # EmptyDB
    /\ last.out.err = NoErr

\* ------------------------------------------- properties of the whole fleet
\* Caller c's get has returned, and when it began the last write of its key
\* was known to be `state` ("put" or "deleted").
GetReturnedAfter(c, state) ==
    /\ calls[c].phase = "returned"
    /\ calls[c].op = "get"
    /\ calls[c].sees.state = state

\* C1. Round trip on the instance without remote owner: once GlobalStatePut
\* (k, v) there has returned without error, a GlobalStateGet(k) there that
\* returns a value returns v as long as no put or delete of k follows; and
\* once GlobalStateDelete(k) has returned without error, such a get returns
\* the empty value until k is put again.
C1_RoundTrip ==
    \A c \in Node :
        (GlobalStateRemoteNode[c] = "" /\ calls[c].out.err = NoErr
            /\ GlobalStateRemoteNode[calls[c].sees.node] = "") =>
            /\ GetReturnedAfter(c, "put") => calls[c].out.value = calls[c].sees.value
            /\ GetReturnedAfter(c, "deleted") => calls[c].out.value = << >>

\* C6. Fleet-wide consistent view: once a GlobalStatePut(k, v) invoked on
\* any instance has returned without error, a GlobalStateGet(k) that starts
\* afterwards on any instance and returns a value returns v, provided no
\* other put or delete of k is invoked in between, whatever the interleaving
\* and whatever the owner's handler did.
C6_FleetConsistentView ==
    \A c \in Node :
        (GetReturnedAfter(c, "put") /\ calls[c].out.err = NoErr) =>
            calls[c].out.value = calls[c].sees.value

\* C20. GlobalStateBatchGet returns no partial results: on the owner, when
\* copying the value of a key of the list fails, the call returns an error
\* and no value list, however many earlier keys were already looked up.
C20_BatchGetNoPartialResults ==
    (/\ OnOwner /\ last.op = "batchGet"
     /\ last.env.fault.kind = "copy"
     /\ \E i \in 1..Len(last.keyList) :
           last.keyList[i] = last.env.fault.key /\ last.keyList[i] \in DOMAIN last.pre) =>
        /\ last.out.err # NoErr
        /\ last.out.valueList = << >>

\* A batch get has failed on the copy of its second key after its first key,
\* stored with a non-empty value, was looked up and copied.
C20_Witness ==
    /\ OnOwner /\ last.op = "batchGet" /\ Len(last.keyList) = 2
    /\ last.env.fault = [kind |-> "copy", key |-> last.keyList[2]]
    /\ last.keyList[1] # last.keyList[2]
    /\ last.keyList[1] \in DOMAIN last.pre /\ last.pre[last.keyList[1]] # << >>
    /\ last.keyList[2] \in DOMAIN last.pre
    /\ last.out.err # NoErr

\* -------------------------------------------- properties of the remote path
\* An invocation has ended on an instance that has a remote owner: a
\* primitive has returned there, or a handler there has answered.
EndedOnRemotePath == last.op # "none" /\ GlobalStateRemoteNode[last.node] # ""

\* The error the invocation ended with: the primitive's own, or that of the
\* primitive the handler dispatched to.
ReturnedErr ==
    IF last.op = "request"
    THEN IF last.dispatched = << >> THEN NoErr ELSE last.dispatched[1].err
    ELSE last.out.err

\* C11. No retry on the remote path: an invocation of a primitive on an
\* instance with a remote owner puts at most one request on the network,
\* whether it succeeds or fails; after a transport failure it returns an
\* error and has sent no second request.
C11_NoRetryOnRemotePath ==
    EndedOnRemotePath =>
        /\ Len(last.sent) <= 1
        /\ (last.env.net \in {"refused", "lost"} /\ last.sent # << >>)
              => (ReturnedErr # NoErr /\ Len(last.sent) = 1)

\* A forwarded put has met a transport failure and returned an error after
\* the one request it sent.
C11_Witness ==
    /\ Forwarded /\ last.op = "put"
    /\ last.env.net = "refused"
    /\ Len(last.sent) = 1 /\ last.sent[1].url.path = RoutePathGlobalStatePutRemote
    /\ last.out.err # NoErr

\* ------------------------------------------------ properties of the handlers
\* A handler has answered a request; its body was decodable or not.
Answered == last.op = "request"
Undecodable == Answered /\ ~last.body.wellFormed

\* C12. Malformed requests never touch storage: when the body of a request
\* to any of the five handlers cannot be decoded, the handler answers with a
\* client error, dispatches to no primitive, sends no request to a remote
\* owner, and leaves every store as it was.
C12_MalformedRequestTouchesNothing ==
    Undecodable =>
        /\ last.resp.status = 400
        /\ last.dispatched = << >>
        /\ last.sent = << >>
        /\ db.owner = last.pre
        /\ db.proxy = EmptyDB

\* The delete handler of the forwarding node has rejected a body that names,
\* besides a member it cannot decode, a key the owner stores.
C12_Witness ==
    /\ Undecodable /\ last.node = "proxy"
    /\ last.route = RoutePathGlobalStateDeleteRemote
    /\ BytesField(last.body.doc, "Key") \in DOMAIN db.owner
    /\ last.resp.status = 400

\* The members of the response struct of each route.
ResultFields(route) ==
    CASE route = RoutePathGlobalStateGetRemote -> {"Value"}
      [] route = RoutePathGlobalStateBatchGetRemote -> {"ValueList"}
      [] route = RoutePathGlobalStateSeekRemote -> {"KeysFound", "ValsFound"}
      [] OTHER -> {}
AllResultFields == {"Value", "ValueList", "KeysFound", "ValsFound"}

\* The handler decoded the request and the primitive it dispatched to
\* returned no error.
DispatchSucceeded ==
    /\ Answered /\ last.body.wellFormed
    /\ last.dispatched # << >> /\ last.dispatched[1].err = NoErr

ResponseUndecodable ==
    /\ Forwarded /\ last.op \in {"get", "batchGet", "seek"}
    /\ last.env.net \in {"garbled", "mistyped"}

\* The returned value and lists are all empty.
EmptyResult(out) ==
    /\ out.value = << >> /\ out.valueList = << >>
    /\ out.keysFound = << >> /\ out.valsFound = << >>

\* The members of the owner's response to the finished call.
OwnerMembers ==
    LET doc == OwnerResponse.body.doc
    IN Outcome(NoErr,
               IF last.op = "get" THEN BytesField(doc, "Value") ELSE << >>,
               IF last.op = "batchGet" THEN ListField(doc, "ValueList") ELSE << >>,
               IF last.op = "seek" THEN ListField(doc, "KeysFound") ELSE << >>,
               IF last.op = "seek" THEN ListField(doc, "ValsFound") ELSE << >>)

OtherStore == [k \in Key |-> <<1>>]

\* The finished call once more, on the same node with engine and network
\* behaving the same way, the databases being dbs.
Again(dbs) ==
    CASE last.op = "put" ->
            LET r == PutOn(last.node, dbs, last.key, last.value, last.env)
            IN [out |-> PutOutcome(r), dbs |-> r.dbs]
      [] last.op = "delete" ->
            LET r == DeleteOn(last.node, dbs, last.key, last.env)
            IN [out |-> PutOutcome(r), dbs |-> r.dbs]
      [] last.op = "get" ->
            [out |-> GetOutcome(GetOn(last.node, dbs, last.key, last.env)), dbs |-> dbs]
      [] last.op = "batchGet" ->
            [out |-> BatchGetOutcome(BatchGetOn(last.node, dbs, last.keyList, last.env)),
             dbs |-> dbs]
      [] last.op = "seek" ->
            [out |-> SeekOutcome(SeekOn(last.node, dbs, last.seek, last.env)), dbs |-> dbs]

\* The store of an instance with a remote owner is never written, and what
\* a call on such an instance returns and does to the owner's store is the
\* same whatever the instance's own store holds.
LocalStoreUnused ==
    /\ \A n \in Node : GlobalStateRemoteNode[n] # "" => db[n] = EmptyDB
    /\ Forwarded =>
          LET r == Again([PreDBs EXCEPT ![last.node] = OtherStore])
          IN /\ r.out = last.out
             /\ r.dbs[last.node] = OtherStore
             /\ r.dbs.owner = db.owner

\* A step that changes the owner's store is a put or a delete, invoked or
\* requested on whichever node, that the owner's own dispatch layer has
\* executed on its database.
OwnerStoreStep ==
    db.owner' # db.owner =>
        \/ /\ last'.op = "put"
           /\ db.owner' = GlobalStatePutLocal(db.owner, last'.key, last'.value,
                                              last'.env.fault).store
        \/ /\ last'.op = "delete"
           /\ db.owner' = GlobalStateDeleteLocal(db.owner, last'.key, last'.env.fault).store
        \/ /\ last'.op = "request" /\ last'.route = RoutePathGlobalStatePutRemote
           /\ db.owner' = GlobalStatePutLocal(db.owner, BytesField(last'.body.doc, "Key"),
                                              BytesField(last'.body.doc, "Value"),
                                              last'.env.fault).store
        \/ /\ last'.op = "request" /\ last'.route = RoutePathGlobalStateDeleteRemote
           /\ db.owner' = GlobalStateDeleteLocal(db.owner, BytesField(last'.body.doc, "Key"),
                                                 last'.env.fault).store

\* C19. Only the owner's store is ever used: on an instance that has a
\* remote owner no sequence of invocations reads or writes the instance's
\* own store, and the owner's store changes only through the put and delete
\* operations that the owner's own dispatch layer executes.
C19_OnlyOwnersStoreUsed == []LocalStoreUnused /\ [][OwnerStoreStep]_vars

\* A put forwarded by an instance with a remote owner has changed the
\* owner's store and left the instance's own store empty.
C19_Witness ==
    /\ Forwarded /\ last.op = "put" /\ last.out.err = NoErr
    /\ db.owner # last.pre /\ last.key \in DOMAIN db.owner
    /\ db[last.node] = EmptyDB

\* ------------------------------------------------------ key construction
\* The key prefix of each kind of record (_GlobalStatePrefix...).
\* A faulty variant: the blacklist prefix reuses the byte of the graylist.
GlobalStatePrefixReused ==
    [PublicKeyToUserMetadata |-> <<0>>,
     TstampNanosPostHash |-> <<1>>,
     PhoneNumberToPhoneNumberMetadata |-> <<2>>,
     ForVerifiedMap |-> <<3>>,
     TstampNanosPinnedPostHash |-> <<4>>,
     UsernameVerificationAuditLog |-> <<5>>,
     PublicKeyToGraylistState |-> <<6>>,
     PublicKeyToBlacklistState |-> <<6>>,
     UserPublicKeyContactPublicKeyToMostRecentReadTstampNanos |-> <<8>>]

GlobalStatePrefix ==
    [PublicKeyToUserMetadata |-> <<0>>,
     TstampNanosPostHash |-> <<1>>,
     PhoneNumberToPhoneNumberMetadata |-> <<2>>,
     ForVerifiedMap |-> <<3>>,
     TstampNanosPinnedPostHash |-> <<4>>,
     UsernameVerificationAuditLog |-> <<5>>,
     PublicKeyToGraylistState |-> <<6>>,
     PublicKeyToBlacklistState |-> <<7>>,
     UserPublicKeyContactPublicKeyToMostRecentReadTstampNanos |-> <<8>>]

\* The bytes of key fields: a byte that is also a prefix, 'A' and 'a'.
FieldByte == {1, 65, 97}
Field == SeqsUpTo(FieldByte, MaxField)

\* strings.ToLower, on ASCII
ToLower(str) ==
    [i \in 1..Len(str) |-> IF str[i] \in 65..90 THEN str[i] + 32 ELSE str[i]]

\* A uint64 in three limbs, hi * 2^48 + mid * 2^24 + lo with hi < 2^16 and
\* mid, lo < 2^24, and the order of the numbers so written.
Tstamp(hi, mid, lo) == [hi |-> hi, mid |-> mid, lo |-> lo]
TstampLess(t1, t2) ==
    \/ t1.hi < t2.hi
    \/ t1.hi = t2.hi /\ t1.mid < t2.mid
    \/ t1.hi = t2.hi /\ t1.mid = t2.mid /\ t1.lo < t2.lo

\* Timestamps: 0, 1, 255, 256, 2^24 - 1, 2^24, 2^48, a nanosecond clock
\* reading of the year 2021, 2^63 and 2^64 - 1.
Tstamps ==
    {Tstamp(0, 0, 0), Tstamp(0, 0, 1), Tstamp(0, 0, 255), Tstamp(0, 0, 256),
     Tstamp(0, 0, 16777215), Tstamp(0, 1, 0), Tstamp(1, 0, 0),
     Tstamp(5755, 4027040, 11184810), Tstamp(32768, 0, 0),
     Tstamp(65535, 16777215, 16777215)}

\* The n bytes of v < 256^n, most significant first.
RECURSIVE BigEndian(_, _)
BigEndian(v, n) ==
    IF n = 0 THEN << >> ELSE Append(BigEndian(v \div 256, n - 1), v % 256)

\* lib.EncodeUint64: the eight bytes of the number, most significant first.
EncodeUint64(t) == BigEndian(t.hi, 2) \o BigEndian(t.mid, 3) \o BigEndian(t.lo, 3)

\* lib.BlockHash: 32 bytes; the hashes looked at are all zeroes and all ones.
HashSizeBytes == 32
BlockHashes == {[i \in 1..HashSizeBytes |-> b] : b \in {0, 255}}

globalStateKeyForPhoneNumberBytesToPhoneNumberMetadata(phoneNumberBytes) ==
    GlobalStatePrefix.PhoneNumberToPhoneNumberMetadata \o phoneNumberBytes

GlobalStateKeyForPublicKeyToUserMetadata(profilePubKey) ==
    GlobalStatePrefix.PublicKeyToUserMetadata \o profilePubKey

\* A faulty variant of GlobalStateKeyForTstampPostHash: the post hash is
\* appended before the timestamp.
GlobalStateKeyForTstampPostHashHashFirst(tstampNanos, postHash) ==
    GlobalStatePrefix.TstampNanosPostHash \o postHash \o EncodeUint64(tstampNanos)

GlobalStateKeyForTstampPostHash(tstampNanos, postHash) ==
    GlobalStatePrefix.TstampNanosPostHash \o EncodeUint64(tstampNanos) \o postHash

GlobalStateKeyForTstampPinnedPostHash(tstampNanos, postHash) ==
    GlobalStatePrefix.TstampNanosPinnedPostHash \o EncodeUint64(tstampNanos) \o postHash

GlobalStateKeyForUsernameVerificationAuditLogs(username) ==
    GlobalStatePrefix.UsernameVerificationAuditLog \o ToLower(username)

GlobalStateKeyForGraylistedProfile(profilePubKey) ==
    GlobalStatePrefix.PublicKeyToGraylistState \o profilePubKey

GlobalStateKeyForBlacklistedProfile(profilePubKey) ==
    GlobalStatePrefix.PublicKeyToBlacklistState \o profilePubKey

GlobalStateKeyForUserPkContactPkToMostRecentReadTstampNanos(userPubKey, contactPubKey) ==
    GlobalStatePrefix.UserPublicKeyContactPublicKeyToMostRecentReadTstampNanos
        \o userPubKey \o contactPubKey

\* The fields a key of one kind is built from: byte fields f1 and f2, a
\* timestamp and a post hash, those the kind has no use for being zero.
KeyFields(kind, f1, f2, t, h) == [kind |-> kind, f1 |-> f1, f2 |-> f2, t |-> t, h |-> h]
ZeroHash == [i \in 1..HashSizeBytes |-> 0]
OneField == {"PublicKeyToUserMetadata", "PhoneNumberToPhoneNumberMetadata",
             "UsernameVerificationAuditLog", "PublicKeyToGraylistState",
             "PublicKeyToBlacklistState"}
Feed == {"TstampNanosPostHash", "TstampNanosPinnedPostHash"}
AllKeyFields ==
    {KeyFields(kind, f, << >>, Tstamp(0, 0, 0), ZeroHash) : kind \in OneField, f \in Field}
    \cup {KeyFields(kind, << >>, << >>, t, h) : kind \in Feed, t \in Tstamps, h \in BlockHashes}
    \cup {KeyFields("UserPublicKeyContactPublicKeyToMostRecentReadTstampNanos", u, c,
                    Tstamp(0, 0, 0), ZeroHash) : u \in Field, c \in Field}

\* The key function of the kind, applied to the fields.
KeyFor(x) ==
    CASE x.kind = "PublicKeyToUserMetadata" -> GlobalStateKeyForPublicKeyToUserMetadata(x.f1)
      [] x.kind = "TstampNanosPostHash" -> GlobalStateKeyForTstampPostHash(x.t, x.h)
      [] x.kind = "PhoneNumberToPhoneNumberMetadata" ->
            globalStateKeyForPhoneNumberBytesToPhoneNumberMetadata(x.f1)
      [] x.kind = "TstampNanosPinnedPostHash" -> GlobalStateKeyForTstampPinnedPostHash(x.t, x.h)
      [] x.kind = "UsernameVerificationAuditLog" ->
            GlobalStateKeyForUsernameVerificationAuditLogs(x.f1)
      [] x.kind = "PublicKeyToGraylistState" -> GlobalStateKeyForGraylistedProfile(x.f1)
      [] x.kind = "PublicKeyToBlacklistState" -> GlobalStateKeyForBlacklistedProfile(x.f1)
      [] x.kind = "UserPublicKeyContactPublicKeyToMostRecentReadTstampNanos" ->
            GlobalStateKeyForUserPkContactPkToMostRecentReadTstampNanos(x.f1, x.f2)

\* Two sets of fields are chosen; the key functions are applied to them.
KeyInit ==
    /\ db = [n \in Node |-> EmptyDB]
    /\ last = Idle
    /\ calls = [c \in Node |-> NoCall]
    /\ acked = [k \in FleetKey |-> Unknown]
    /\ hop = NoHop
    /\ \E a \in AllKeyFields, b \in AllKeyFields :
          built = [phase |-> "fields", a |-> a, b |-> b, keyA |-> << >>, keyB |-> << >>]

BuildKeys ==
    /\ built.phase = "fields"
    /\ built' = [built EXCEPT !.phase = "keys", !.keyA = KeyFor(built.a),
                              !.keyB = KeyFor(built.b)]
    /\ UNCHANGED <<db, last, calls, acked, hop>>

KeyNext == BuildKeys

KeySpec == KeyInit /\ [][KeyNext]_vars

\* Both keys have been built.
Built == built.phase = "keys"

\* C15. Kind disjointness: the prefixes of all kinds of record are single
\* bytes, no two of them the same, and two keys built by the key functions
\* of different kinds are never equal, whatever the fields, empty fields
\* included.
C15_KindDisjointness ==
    /\ \A k \in DOMAIN GlobalStatePrefix : Len(GlobalStatePrefix[k]) = 1
    /\ \A k1, k2 \in DOMAIN GlobalStatePrefix :
          k1 # k2 => GlobalStatePrefix[k1] # GlobalStatePrefix[k2]
    /\ (Built /\ built.a.kind # built.b.kind) => built.keyA # built.keyB

\* Keys of the graylist and the blacklist have been built from the same
\* public key, the empty one.
C15_Witness ==
    /\ Built
    /\ built.a.kind = "PublicKeyToGraylistState"
    /\ built.b.kind = "PublicKeyToBlacklistState"
    /\ built.a.f1 = << >> /\ built.b.f1 = << >>
    /\ built.keyA # built.keyB

\* The fields are in the form the key function's callers hand over: a
\* username in lower case.
Normalized(x) == x.kind = "UsernameVerificationAuditLog" => ToLower(x.f1) = x.f1

\* C16. Key encoding is injective within each kind of record: two different
\* tuples of normalized fields of one kind are never built into the same
\* key; so two keys of GlobalStateKeyForUserPkContactPkToMostRecentReadTstampNanos
\* are equal only if both the user keys and the contact keys are.
C16_InjectiveWithinKind ==
    (/\ Built /\ built.a.kind = built.b.kind
     /\ Normalized(built.a) /\ Normalized(built.b)
     /\ built.a # built.b) => built.keyA # built.keyB

\* C17. Feed keys are ordered by timestamp: of two keys of the feed, or two
\* of the pinned posts, the one with the smaller timestamp is the smaller in
\* byte-wise lexicographic order whatever the post hashes; so keys met in
\* ascending order carry timestamps that never decrease.
C17_FeedKeysOrderedByTimestamp ==
    (Built /\ built.a.kind = built.b.kind /\ built.a.kind \in Feed) =>
        /\ TstampLess(built.a.t, built.b.t) => LexLess(built.keyA, built.keyB)
        /\ LexLess(built.keyA, built.keyB) => ~TstampLess(built.b.t, built.a.t)

\* Two feed keys have been built, the first from timestamp 255 and the
\* greater hash, the second from timestamp 256 and the smaller hash.
C17_Witness ==
    /\ Built /\ built.a.kind = "TstampNanosPostHash" /\ built.b.kind = "TstampNanosPostHash"
    /\ built.a.t = Tstamp(0, 0, 255) /\ built.b.t = Tstamp(0, 0, 256)
    /\ built.a.h[1] = 255 /\ built.b.h[1] = 0
    /\ LexLess(built.keyA, built.keyB)

\* ------------------------------------------- any remote-node configuration
\* The instances; a configuration gives each its GlobalStateRemoteNode, 0
\* standing for the empty string (no remote node).
Instance == 1..NumInstances
Configuration == [Instance -> Instance \cup {0}]

\* A faulty variant of Addressed: the request goes to the sender itself.
AddressedSelf(cfg, i) == i

\* The instance that a request of instance i is posted to:
\* fmt.Sprintf("%s%s?...", fes.GlobalStateRemoteNode, route, ...).
Addressed(cfg, i) == cfg[i]

\* hop: the configuration, the instance the operation is at, the requests
\* posted for it so far, and whether it is under way or has returned.
Hop(phase, remote, at, hops, err) ==
    [phase |-> phase, remote |-> remote, at |-> at, hops |-> hops, err |-> err]

HopInit ==
    /\ db = [n \in Node |-> EmptyDB]
    /\ last = Idle
    /\ calls = [c \in Node |-> NoCall]
    /\ acked = [k \in FleetKey |-> Unknown]
    /\ built = NoKeys
    /\ \E cfg \in Configuration : hop = Hop("idle", cfg, 0, 0, NoErr)

\* A primitive is invoked on instance i.
HopInvoke(i) ==
    /\ hop.phase = "idle"
    /\ hop' = [hop EXCEPT !.phase = "running", !.at = i, !.hops = 0, !.err = NoErr]
    /\ UNCHANGED <<db, last, calls, acked, built>>

\* The instance has a remote node: the request is posted, the handler of the
\* addressed instance decodes it and calls the primitive there.
HopForward ==
    /\ hop.phase = "running" /\ hop.remote[hop.at] # 0
    /\ hop' = [hop EXCEPT !.at = Addressed(hop.remote, hop.at),
                          !.hops = Min(hop.hops + 1, MaxHops)]
    /\ UNCHANGED <<db, last, calls, acked, built>>

\* The instance has a remote node and http.Post fails: the primitive
\* returns an error, which every handler on the way back turns into a
\* response of its own.
HopFail ==
    /\ hop.phase = "running" /\ hop.remote[hop.at] # 0
    /\ hop' = [hop EXCEPT !.phase = "returned", !.hops = Min(hop.hops + 1, MaxHops),
                          !.err = "Error processing remote request"]
    /\ UNCHANGED <<db, last, calls, acked, built>>

\* The instance has no remote node: the primitive runs on its database.
HopLocal ==
    /\ hop.phase = "running" /\ hop.remote[hop.at] = 0
    /\ hop' = [hop EXCEPT !.phase = "returned"]
    /\ UNCHANGED <<db, last, calls, acked, built>>

\* The caller takes the result.
HopReturn ==
    /\ hop.phase = "returned"
    /\ hop' = Hop("idle", hop.remote, 0, 0, NoErr)
    /\ UNCHANGED <<db, last, calls, acked, built>>

HopNext ==
    \/ \E i \in Instance : HopInvoke(i)
    \/ HopForward
    \/ HopFail
    \/ HopLocal
    \/ HopReturn

\* A primitive under way is not suspended: its branch is straight-line code.
HopSpec ==
    HopInit /\ [][HopNext]_vars /\ WF_vars(HopForward \/ HopFail \/ HopLocal)

\* No instance that is some instance's remote node has a remote node itself.
OwnersAreTerminal ==
    \A i \in Instance : hop.remote[i] # 0 => hop.remote[hop.remote[i]] = 0

\* C18 as stated. For every configuration of remote nodes an operation
\* ends at a local store after at most one network hop, and every
\* invocation eventually returns a result or an error.
C18_OneHopInEveryConfiguration ==
    /\ [](hop.hops <= 1)
    /\ (hop.phase = "running") ~> (hop.phase = "returned")

\* C18, amended. In every configuration in which no remote node has a remote
\* node itself, an operation runs on the local store of the instance it is
\* invoked on or is forwarded once to the owner, which runs it on its local
\* store, and every invocation eventually returns a result or an error.
C18_OneHopWhenOwnersAreTerminal ==
    /\ [](OwnersAreTerminal => hop.hops <= 1)
    /\ (OwnersAreTerminal /\ hop.phase = "running") ~> (hop.phase = "returned")

\* Two instances share an owner; an operation invoked on one of them has
\* been forwarded once and has returned from the owner's local store.
C18_Witness ==
    /\ OwnersAreTerminal
    /\ \E i, j \in Instance : i # j /\ hop.remote[i] # 0 /\ hop.remote[i] = hop.remote[j]
    /\ hop.phase = "returned" /\ hop.err = NoErr
    /\ hop.hops = 1 /\ hop.remote[hop.at] = 0

\* ------------------------------------------------- what goes on the wire
\* The instances that have a remote node configured, whatever their secret.
Configured == {n \in DOMAIN GlobalStateRemoteNode : GlobalStateRemoteNode[n] # ""}

\* Callers invoke the primitives on the configured instances, one call at a
\* time; the request is delivered or refused.
WireEnvs == {Env(NoFault, net) : net \in {"ok", "refused"}}
WirePut(n) ==
    /\ last.op = "none"
    /\ \E key \in FleetKey, value \in Value :
          \E env \in WireEnvs : DoPut(n, key, value, env)
WireGet(n) ==
    /\ last.op = "none"
    /\ \E key \in FleetKey : \E env \in WireEnvs : DoGet(n, key, env)
WireBatchGet(n) ==
    /\ last.op = "none"
    /\ \E keyList \in SeqsUpTo(FleetKey, MaxBatch) :
          \E env \in WireEnvs : DoBatchGet(n, keyList, env)
WireDelete(n) ==
    /\ last.op = "none"
    /\ \E key \in FleetKey : \E env \in WireEnvs : DoDelete(n, key, env)
WireSeek(n) ==
    /\ last.op = "none"
    /\ \E a \in ClientSeekArgs : \E env \in WireEnvs : DoSeek(n, a, env)

WireNext ==
    \/ \E n \in Configured : WirePut(n)
    \/ \E n \in Configured : WireGet(n)
    \/ \E n \in Configured : WireBatchGet(n)
    \/ \E n \in Configured : WireDelete(n)
    \/ \E n \in Configured : WireSeek(n)
    \/ Return

WireSpec == Init /\ [][WireNext]_vars

\* The route of each operation's handler, as GlobalStateRoutes registers it.
GlobalStateRoutes ==
    [put |-> RoutePathGlobalStatePutRemote, get |-> RoutePathGlobalStateGetRemote,
     batchGet |-> RoutePathGlobalStateBatchGetRemote,
     delete |-> RoutePathGlobalStateDeleteRemote,
     seek |-> RoutePathGlobalStateSeekRemote]

\* The envelope holds exactly the arguments of the finished call: its
\* members, read as the handler's Decode reads them, are the arguments, and
\* it has no other member.
EnvelopeHoldsArguments(body) ==
    /\ body.wellFormed
    /\ CASE last.op = "put" ->
              /\ DOMAIN body.doc = {"Key", "Value"}
              /\ BytesField(body.doc, "Key") = last.key
              /\ BytesField(body.doc, "Value") = last.value
         [] last.op \in {"get", "delete"} ->
              /\ DOMAIN body.doc = {"Key"}
              /\ BytesField(body.doc, "Key") = last.key
         [] last.op = "batchGet" ->
              /\ DOMAIN body.doc = {"KeyList"}
              /\ ListField(body.doc, "KeyList") = last.keyList
         [] last.op = "seek" ->
              /\ DOMAIN body.doc = {"StartPrefix", "ValidForPrefix", "MaxKeyLen",
                                    "NumToFetch", "Reverse", "FetchValues"}
              /\ SeekArgs(BytesField(body.doc, "StartPrefix"),
                          BytesField(body.doc, "ValidForPrefix"),
                          body.doc.MaxKeyLen, body.doc.NumToFetch,
                          body.doc.Reverse, body.doc.FetchValues) = last.seek
         [] OTHER -> FALSE

\* C21: each remote request goes to its own endpoint with the secret. When
\* a primitive invoked on an instance with a remote node configured has
\* returned, the request it sent went to the configured address at the
\* route of the same operation, its shared_secret query parameter is the
\* configured shared secret, and its envelope holds exactly the arguments
\* the caller passed.
C21_RequestToOwnEndpointWithSecret ==
    Forwarded =>
        /\ Len(last.sent) = 1
        /\ last.sent[1].url.host = GlobalStateRemoteNode[last.node]
        /\ last.sent[1].url.path = GlobalStateRoutes[last.op]
        /\ QueryGet(last.sent[1].url.rawQuery, GlobalStateSharedSecretParam)
               = GlobalStateRemoteNodeSharedSecret[last.node]
        /\ EnvelopeHoldsArguments(last.sent[1].body)

\* ------------------------------------------------------ frame conditions
\* The keys, other than `key`, whose presence or value differs between the
\* owner's store before the finished call and after it.
TouchedBesides(key) ==
    {k \in (DOMAIN last.pre \cup DOMAIN db.owner) \ {key} :
        \/ k \notin DOMAIN last.pre
        \/ k \notin DOMAIN db.owner
        \/ last.pre[k] # db.owner[k]}

\* C22: operations touch only their own key. On an instance with no remote
\* node, get, batch get and seek leave the whole store as it was, and
\* put(k, v) and delete(k) leave the presence and the value of every key
\* other than k as they were, whether they return an error or not.
C22_OnlyOwnKeyTouched ==
    OnOwner =>
        IF last.op \in {"get", "batchGet", "seek"}
        THEN db.owner = last.pre
        ELSE TouchedBesides(last.key) = {}

\* A delete on the owner has taken its key away while the store holds a
\* longer key that begins with it.
C22_Witness ==
    /\ OnOwner /\ last.op = "delete" /\ last.out.err = NoErr
    /\ last.key \in DOMAIN last.pre /\ last.key \notin DOMAIN db.owner
    /\ \E k \in DOMAIN db.owner :
          Len(k) > Len(last.key) /\ SubSeq(k, 1, Len(last.key)) = last.key

\* ------------------------------------------------------ absent and empty
\* Key k was absent from the owner's store, or stored with an empty value,
\* when the finished call began.
AbsentOrEmpty(k) == k \notin DOMAIN last.pre \/ last.pre[k] = << >>

\* C23: absent and empty are indistinguishable to get. In every storage
\* state, GlobalStateGet(k) on the instance that owns the store returns an
\* empty value and no error if and only if k is absent from the store or
\* stored with an empty value, and so does each entry of the list a
\* GlobalStateBatchGet returns.
C23_EmptyIffAbsentOrEmpty ==
    OnOwner =>
        /\ last.op = "get" =>
              ((last.out.err = NoErr /\ last.out.value = << >>)
                   <=> AbsentOrEmpty(last.key))
        /\ (last.op = "batchGet" /\ last.out.err = NoErr) =>
              /\ Len(last.out.valueList) = Len(last.keyList)
              /\ \A i \in 1..Len(last.keyList) :
                    last.out.valueList[i] = << >> <=> AbsentOrEmpty(last.keyList[i])

====
